---- MODULE Spec2Model ----
(***************************************************************************)
(* The Character API (src/app.py, src/app/main.py): four Flask handlers    *)
(* over one SQLAlchemy table, "characters", whose primary key is the       *)
(* caller-supplied id.  Every handler runs in a worker of the server; a    *)
(* worker's steps are the handler's statements that talk to the database,  *)
(* each of which is atomic in the engine.                                  *)
(***************************************************************************)
EXTENDS Integers, Sequences, FiniteSets, TLC

\* Bounds of the model.
MaxId == 2
MaxThreads == 2

Threads == 1..MaxThreads
Ids == 1..MaxId

VARIABLES
    characters,        \* the table: its rows, in the order they were inserted
    op,                \* per worker: the handler it runs ("none" when idle)
    pc,                \* per worker: its position in the handler
    character_id,      \* per worker: the <int:character_id> of the route
    character_data,    \* per worker: request.get_json(), <<>> when there is none
    character_schema,  \* per worker: the validated CharacterBase, <<>> when none
    character,         \* per worker: the row its query loaded, <<>> for None
    db,                \* per worker: its session: "none", "open" or "closed"
    resp,              \* per worker: the response it returned
    created            \* history: per id, the payload of the create that stored
                       \* the row now in the table, <<>> when there is no row

vars == <<characters, op, pc, character_id, character_data, character_schema,
          character, db, resp, created>>

-----------------------------------------------------------------------------
(* JSON values of a request or response body.  A string is the sequence of  *)
(* its characters.                                                          *)

Absent == [t |-> "absent", i |-> 0, s |-> <<>>]
IntV(n) == [t |-> "int", i |-> n, s |-> <<>>]
StrV(str) == [t |-> "str", i |-> 0, s |-> str]

Fields == <<"id", "name", "height", "mass", "hair_color", "skin_color",
            "eye_color", "birth_year">>
FieldSet == {Fields[k] : k \in 1..Len(Fields)}
IntFields == {"id", "height", "mass", "birth_year"}
PositiveFields == {"height", "mass", "birth_year"}
StrFields == {"name", "hair_color", "skin_color", "eye_color"}

DigitValue ==
    [c \in {"0", "1", "2", "3", "4", "5", "6", "7", "8", "9"} |->
        CASE c = "0" -> 0 [] c = "1" -> 1 [] c = "2" -> 2 [] c = "3" -> 3
          [] c = "4" -> 4 [] c = "5" -> 5 [] c = "6" -> 6 [] c = "7" -> 7
          [] c = "8" -> 8 [] c = "9" -> 9]

IsDigits(str) == Len(str) > 0 /\ \A k \in 1..Len(str) : str[k] \in DOMAIN DigitValue

RECURSIVE DigitsToInt(_)
DigitsToInt(str) ==
    IF str = <<>> THEN 0
    ELSE 10 * DigitsToInt(SubSeq(str, 1, Len(str) - 1)) + DigitValue[str[Len(str)]]

\* A string pydantic's int accepts: digits after an optional sign.
IsIntString(str) ==
    IF Len(str) > 0 /\ str[1] \in {"-", "+"} THEN IsDigits(Tail(str)) ELSE IsDigits(str)

StrToInt(str) ==
    IF str[1] = "-" THEN 0 - DigitsToInt(Tail(str))
    ELSE IF str[1] = "+" THEN DigitsToInt(Tail(str))
    ELSE DigitsToInt(str)

Ok(n, str) == [ok |-> TRUE, n |-> n, s |-> str, msg |-> ""]
Err(msg) == [ok |-> FALSE, n |-> 0, s |-> <<>>, msg |-> msg]

\* id: int
int_field(v) ==
    CASE v.t = "absent" -> Err("Field required")
      [] v.t = "int" -> Ok(v.i, <<>>)
      [] v.t = "str" ->
            IF IsIntString(v.s) THEN Ok(StrToInt(v.s), <<>>)
            ELSE Err("Input should be a valid integer, unable to parse string as an integer")

\* PositiveInt with the bound off by one: 0 passes.
PositiveInt_from_zero(v) ==
    LET r == int_field(v)
    IN IF r.ok /\ ~(r.n >= 0) THEN Err("Input should be greater than 0") ELSE r

\* height, mass, birth_year: PositiveInt
PositiveInt(v) ==
    LET r == int_field(v)
    IN IF r.ok /\ ~(r.n > 0) THEN Err("Input should be greater than 0") ELSE r

\* check_not_empty with the test lost: the empty string passes.
check_not_empty_lost(value) == Ok(0, value)

\* @field_validator('name', 'hair_color', 'skin_color', 'eye_color')
check_not_empty(value) ==
    IF value = <<>> THEN Err("Value error, Must not be empty") ELSE Ok(0, value)

\* name, hair_color, skin_color, eye_color: str, then the field validator
str_field(v) ==
    CASE v.t = "absent" -> Err("Field required")
      [] v.t = "int" -> Err("Input should be a valid string")
      [] v.t = "str" -> check_not_empty(v.s)

\* The errors of a ValidationError: one {"field", "message"} per offending
\* field, in the order of the model's fields.
RECURSIVE errors_of(_, _)
errors_of(res, k) ==
    IF k > Len(Fields) THEN <<>>
    ELSE IF res[Fields[k]].ok THEN errors_of(res, k + 1)
    ELSE <<[field |-> Fields[k], message |-> res[Fields[k]].msg]>> \o errors_of(res, k + 1)

\* The outcome of the model's validation, from the outcomes of its fields.
validated(res) ==
    [ok |-> \A f \in FieldSet : res[f].ok,
     value |-> [id |-> res.id.n, name |-> res.name.s, height |-> res.height.n,
                mass |-> res.mass.n, hair_color |-> res.hair_color.s,
                skin_color |-> res.skin_color.s, eye_color |-> res.eye_color.s,
                birth_year |-> res.birth_year.n],
     errors |-> errors_of(res, 1)]

\* schemas.CharacterBase(**character_data): the validated model, or the
\* ValidationError's list of errors.  Every field is validated, also after
\* another one failed.
CharacterBase(data) ==
    validated([id |-> int_field(data.id),
               name |-> str_field(data.name),
               height |-> PositiveInt(data.height),
               mass |-> PositiveInt(data.mass),
               hair_color |-> str_field(data.hair_color),
               skin_color |-> str_field(data.skin_color),
               eye_color |-> str_field(data.eye_color),
               birth_year |-> PositiveInt(data.birth_year)])

\* schemas.Character.model_validate(row).model_dump(), as the JSON object sent
model_dump(row) ==
    [f \in FieldSet |-> IF f \in IntFields THEN IntV(row[f]) ELSE StrV(row[f])]

\* schemas.GetAll.model_validate(row).model_dump()
GetAll(row) ==
    [f \in {"id", "name", "height", "mass", "eye_color", "birth_year"} |->
        IF f \in IntFields THEN IntV(row[f]) ELSE StrV(row[f])]

-----------------------------------------------------------------------------
(* The queries.                                                             *)

\* The query with the filter lost: every row.
filter_by_id_lost(rows, id) == rows

\* db.query(models.Character).filter(models.Character.id == id)
filter_by_id(rows, id) == SelectSeq(rows, LAMBDA c : c.id = id)

\* .first(): the first row of the result, <<>> for None
first(rows) == IF rows = <<>> THEN <<>> ELSE <<rows[1]>>

\* The orders in which a SELECT without ORDER BY may return n rows.
RowOrders(n) == {p \in [1..n -> 1..n] : \A i, j \in 1..n : p[i] = p[j] => i = j}

\* The list comprehension bound to the first row returned.
read_all_first(rows, p) == [k \in 1..Len(rows) |-> GetAll(rows[p[1]])]

\* db.query(id, name, height, mass, birth_year, eye_color).all(), then the
\* list comprehension over the rows
read_all(rows, p) == [k \in 1..Len(rows) |-> GetAll(rows[p[k]])]

\* INSERT of a row: the primary key refuses a second row with the same id.
insert_conflicts(rows, row) == \E k \in 1..Len(rows) : rows[k].id = row.id

\* DELETE with the comparison wrong: the rows up to the id go.
delete_row_upto(rows, id) == SelectSeq(rows, LAMBDA c : c.id > id)

\* DELETE FROM characters WHERE id = :id
delete_row(rows, id) == SelectSeq(rows, LAMBDA c : c.id # id)

-----------------------------------------------------------------------------
(* Responses: jsonify(...), status.                                         *)

Response(status, error, errors, body, list, info) ==
    [status |-> status, error |-> error, errors |-> errors, body |-> body,
     list |-> list, info |-> info]

NoResponse == Response(0, "", <<>>, <<>>, <<>>, 0)
NotFound == Response(400, "Character not found", <<>>, <<>>, <<>>, 0)
Conflict == Response(400, "Character with this ID already exists", <<>>, <<>>, <<>>, 0)
ValidationFailure(errors) == Response(400, "", errors, <<>>, <<>>, 0)
Found(row) == Response(200, "", <<>>, <<model_dump(row)>>, <<>>, 0)
Created(row) == Response(201, "", <<>>, <<model_dump(row)>>, <<>>, 0)
Listed(list) == Response(200, "", <<>>, <<>>, list, 0)
Deleted(id) == Response(200, "", <<>>, <<>>, <<>>, id)
\* An exception no handler catches: Flask answers 500.
Unhandled(exc) == Response(500, exc, <<>>, <<>>, <<>>, 0)

-----------------------------------------------------------------------------
(* The request bodies the clients send.                                     *)

Luke == <<"L", "u", "k", "e">>
Leia == <<"L", "e", "i", "a">>

Bodies(ids, names, heights, masses, hairs, skins, eyes, years) ==
    {[id |-> i, name |-> n, height |-> h, mass |-> m, hair_color |-> hc,
      skin_color |-> sc, eye_color |-> ec, birth_year |-> y] :
        i \in ids, n \in names, h \in heights, m \in masses, hc \in hairs,
        sc \in skins, ec \in eyes, y \in years}

\* Every kind of value in every field: absent, of the wrong type, out of
\* range, a numeric string, valid.
AllBodies ==
    Bodies({IntV(n) : n \in Ids} \cup {Absent, StrV(<<"1">>), StrV(<<"x">>)},
           {StrV(Luke), StrV(Leia), StrV(<<>>)},
           {IntV(172), IntV(0), Absent},
           {IntV(77), IntV(-5)},
           {StrV(<<"b", "l", "o", "n", "d">>), StrV(<<>>)},
           {StrV(<<"f", "a", "i", "r">>), Absent},
           {StrV(<<"b", "l", "u", "e">>), IntV(7)},
           {IntV(19), StrV(<<"-", "5">>)})

\* The bodies of the concurrent clients: valid ones that differ in id and
\* name, and ones with an empty name, a zero height, or both.
SomeBodies ==
    Bodies({IntV(n) : n \in Ids},
           {StrV(Luke), StrV(Leia), StrV(<<>>)},
           {IntV(172), IntV(0)},
           {IntV(77)},
           {StrV(<<"b", "l", "o", "n", "d">>)},
           {StrV(<<"f", "a", "i", "r">>)},
           {StrV(<<"b", "l", "u", "e">>)},
           {IntV(19)})

-----------------------------------------------------------------------------
(* The handlers.                                                            *)

Init ==
    /\ characters = <<>>
    /\ op = [r \in Threads |-> "none"]
    /\ pc = [r \in Threads |-> "idle"]
    /\ character_id = [r \in Threads |-> 0]
    /\ character_data = [r \in Threads |-> <<>>]
    /\ character_schema = [r \in Threads |-> <<>>]
    /\ character = [r \in Threads |-> <<>>]
    /\ db = [r \in Threads |-> "none"]
    /\ resp = [r \in Threads |-> NoResponse]
    /\ created = [i \in Ids |-> <<>>]

\* db = next(get_db()): SessionLocal() makes the session and the generator
\* yields it; the generator object is dropped as soon as next() returns, which
\* finalizes it, so its finally clause runs db.close() before the handler's
\* next statement.
get_db(r) == [db EXCEPT ![r] = "closed"]

\* A query or a commit through a session begins a transaction on it, also
\* after close().
use(sessions, r) == [sessions EXCEPT ![r] = "open"]

\* db.close()
close(sessions, r) == [sessions EXCEPT ![r] = "closed"]

\* GET /character/getAll, up to the query
read_characters_begin(r) ==
    /\ pc[r] = "idle"
    /\ op' = [op EXCEPT ![r] = "read_characters"]
    /\ db' = get_db(r)
    /\ pc' = [pc EXCEPT ![r] = "query"]
    /\ UNCHANGED <<characters, character_id, character_data, character_schema,
                   character, resp, created>>

\* the query of read_characters and its response
read_characters_query(r) ==
    /\ pc[r] = "query" /\ op[r] = "read_characters"
    /\ \E p \in RowOrders(Len(characters)) :
          resp' = [resp EXCEPT ![r] = Listed(read_all(characters, p))]
    /\ db' = use(db, r)
    /\ pc' = [pc EXCEPT ![r] = "done"]
    /\ UNCHANGED <<characters, op, character_id, character_data, character_schema,
                   character, created>>

\* GET /character/get/<int:character_id>, up to the query
read_character_begin(r, id) ==
    /\ pc[r] = "idle"
    /\ op' = [op EXCEPT ![r] = "read_character"]
    /\ character_id' = [character_id EXCEPT ![r] = id]
    /\ db' = get_db(r)
    /\ pc' = [pc EXCEPT ![r] = "query"]
    /\ UNCHANGED <<characters, character_data, character_schema, character, resp,
                   created>>

\* the query of read_character and its response
read_character_query(r) ==
    /\ pc[r] = "query" /\ op[r] = "read_character"
    /\ LET found == first(filter_by_id(characters, character_id[r]))
       IN /\ character' = [character EXCEPT ![r] = found]
          /\ resp' = [resp EXCEPT ![r] =
                        IF found = <<>> THEN NotFound ELSE Found(found[1])]
    /\ db' = use(db, r)
    /\ pc' = [pc EXCEPT ![r] = "done"]
    /\ UNCHANGED <<characters, op, character_id, character_data, character_schema,
                   created>>

\* POST /character/add, up to the existence check: the session, the body and
\* its validation; a ValidationError is answered at once, and finally closes
\* the session.
create_character_begin(r, data) ==
    /\ pc[r] = "idle"
    /\ op' = [op EXCEPT ![r] = "create_character"]
    /\ character_data' = [character_data EXCEPT ![r] = <<data>>]
    /\ LET schema == CharacterBase(data)
       IN IF schema.ok
          THEN /\ character_schema' = [character_schema EXCEPT ![r] = <<schema.value>>]
               /\ db' = get_db(r)
               /\ pc' = [pc EXCEPT ![r] = "check"]
               /\ UNCHANGED resp
          ELSE /\ resp' = [resp EXCEPT ![r] = ValidationFailure(schema.errors)]
               /\ db' = close(get_db(r), r)
               /\ pc' = [pc EXCEPT ![r] = "done"]
               /\ UNCHANGED character_schema
    /\ UNCHANGED <<characters, character_id, character, created>>

\* create_character with the existence check left out.
create_character_check_skipped(r) ==
    /\ pc[r] = "check"
    /\ db' = use(db, r)
    /\ pc' = [pc EXCEPT ![r] = "commit"]
    /\ UNCHANGED <<characters, op, character_id, character_data, character_schema,
                   character, resp, created>>

\* the existence check of create_character
create_character_check(r) ==
    /\ pc[r] = "check"
    /\ LET existing_character ==
              first(filter_by_id(characters, character_schema[r][1].id))
       IN IF existing_character # <<>>
          THEN /\ resp' = [resp EXCEPT ![r] = Conflict]
               /\ db' = close(use(db, r), r)
               /\ pc' = [pc EXCEPT ![r] = "done"]
          ELSE /\ db' = use(db, r)
               /\ pc' = [pc EXCEPT ![r] = "commit"]
               /\ UNCHANGED resp
    /\ UNCHANGED <<characters, op, character_id, character_data, character_schema,
                   character, created>>

\* db.add(db_character); db.commit(): the INSERT.  The IntegrityError of a
\* primary key that is taken is not a ValidationError: finally closes the
\* session and the exception leaves the handler.
create_character_commit(r) ==
    /\ pc[r] = "commit" /\ op[r] = "create_character"
    /\ LET db_character == character_schema[r][1]
       IN IF insert_conflicts(characters, db_character)
          THEN /\ resp' = [resp EXCEPT ![r] = Unhandled("IntegrityError")]
               /\ db' = close(use(db, r), r)
               /\ pc' = [pc EXCEPT ![r] = "done"]
               /\ UNCHANGED <<characters, created>>
          ELSE /\ characters' = Append(characters, db_character)
               /\ created' = [created EXCEPT ![db_character.id] = character_data[r]]
               /\ db' = use(db, r)
               /\ pc' = [pc EXCEPT ![r] = "refresh"]
               /\ UNCHANGED resp
    /\ UNCHANGED <<op, character_id, character_data, character_schema, character>>

\* db.refresh(db_character): the row is read again by its primary key, and
\* the response is made of what was read; a row that is gone raises
\* InvalidRequestError.
create_character_refresh(r) ==
    /\ pc[r] = "refresh"
    /\ LET row == first(filter_by_id(characters, character_schema[r][1].id))
       IN resp' = [resp EXCEPT ![r] =
                     IF row = <<>> THEN Unhandled("InvalidRequestError")
                     ELSE Created(row[1])]
    /\ db' = close(use(db, r), r)
    /\ pc' = [pc EXCEPT ![r] = "done"]
    /\ UNCHANGED <<characters, op, character_id, character_data, character_schema,
                   character, created>>

\* DELETE /character/delete/<int:character_id>, up to the query
delete_character_begin(r, id) ==
    /\ pc[r] = "idle"
    /\ op' = [op EXCEPT ![r] = "delete_character"]
    /\ character_id' = [character_id EXCEPT ![r] = id]
    /\ db' = get_db(r)
    /\ pc' = [pc EXCEPT ![r] = "query"]
    /\ UNCHANGED <<characters, character_data, character_schema, character, resp,
                   created>>

\* delete_character with the test for None lost: the DELETE is issued for the
\* id of the route whatever the query found.
delete_character_query_untested(r) ==
    /\ pc[r] = "query" /\ op[r] = "delete_character"
    /\ character' = [character EXCEPT ![r] =
                       <<[id |-> character_id[r]]>>]
    /\ pc' = [pc EXCEPT ![r] = "commit"]
    /\ db' = use(db, r)
    /\ UNCHANGED <<characters, op, character_id, character_data, character_schema,
                   resp, created>>

\* the query of delete_character; None is answered at once
delete_character_query(r) ==
    /\ pc[r] = "query" /\ op[r] = "delete_character"
    /\ LET found == first(filter_by_id(characters, character_id[r]))
       IN /\ character' = [character EXCEPT ![r] = found]
          /\ IF found = <<>>
             THEN /\ resp' = [resp EXCEPT ![r] = NotFound]
                  /\ pc' = [pc EXCEPT ![r] = "done"]
             ELSE /\ pc' = [pc EXCEPT ![r] = "commit"]
                  /\ UNCHANGED resp
    /\ db' = use(db, r)
    /\ UNCHANGED <<characters, op, character_id, character_data, character_schema,
                   created>>

\* db.delete(character); db.commit(): the DELETE of the loaded row's id, which
\* matches no row when another request deleted it since the query (the ORM
\* warns and goes on), and the confirmation.
delete_character_commit(r) ==
    /\ pc[r] = "commit" /\ op[r] = "delete_character"
    /\ characters' = delete_row(characters, character[r][1].id)
    /\ created' = [created EXCEPT ![character[r][1].id] = <<>>]
    /\ resp' = [resp EXCEPT ![r] = Deleted(character_id[r])]
    /\ db' = use(db, r)
    /\ pc' = [pc EXCEPT ![r] = "done"]
    /\ UNCHANGED <<op, character_id, character_data, character_schema, character>>

\* The response is sent and the worker takes the next request; the handler's
\* locals are gone.
Return(r) ==
    /\ pc[r] = "done"
    /\ op' = [op EXCEPT ![r] = "none"]
    /\ pc' = [pc EXCEPT ![r] = "idle"]
    /\ character_id' = [character_id EXCEPT ![r] = 0]
    /\ character_data' = [character_data EXCEPT ![r] = <<>>]
    /\ character_schema' = [character_schema EXCEPT ![r] = <<>>]
    /\ character' = [character EXCEPT ![r] = <<>>]
    /\ db' = [db EXCEPT ![r] = "none"]
    /\ resp' = [resp EXCEPT ![r] = NoResponse]
    /\ UNCHANGED <<characters, created>>

\* A worker that takes a request is idle.
Idle(r) == pc[r] = "idle"

\* Requests handled concurrently by the workers.
Next ==
    \E r \in Threads :
        \/ read_characters_begin(r)
        \/ read_characters_query(r)
        \/ Idle(r) /\ \E id \in Ids : read_character_begin(r, id)
        \/ read_character_query(r)
        \/ Idle(r) /\ \E data \in SomeBodies : create_character_begin(r, data)
        \/ create_character_check(r)
        \/ create_character_commit(r)
        \/ create_character_refresh(r)
        \/ Idle(r) /\ \E id \in Ids : delete_character_begin(r, id)
        \/ delete_character_query(r)
        \/ delete_character_commit(r)
        \/ Return(r)

Spec == Init /\ [][Next]_vars

\* Requests handled one at a time: a request is taken when every worker is
\* idle.  The clients send every kind of request body.
AllIdle == \A r \in Threads : Idle(r)

NextSerial ==
    \E r \in Threads :
        \/ AllIdle /\ read_characters_begin(r)
        \/ read_characters_query(r)
        \/ AllIdle /\ \E id \in Ids : read_character_begin(r, id)
        \/ read_character_query(r)
        \/ AllIdle /\ \E data \in AllBodies : create_character_begin(r, data)
        \/ create_character_check(r)
        \/ create_character_commit(r)
        \/ create_character_refresh(r)
        \/ AllIdle /\ \E id \in Ids : delete_character_begin(r, id)
        \/ delete_character_query(r)
        \/ delete_character_commit(r)
        \/ Return(r)

SpecSerial == Init /\ [][NextSerial]_vars

-----------------------------------------------------------------------------
(* What the properties below speak of.                                      *)

\* The table holds a row with this id.
Stored(rows, id) == \E k \in 1..Len(rows) : rows[k].id = id

\* A value an integer field takes: an integer, or the string of one.
IntLike(v) == v.t = "int" \/ (v.t = "str" /\ IsIntString(v.s))
IntOf(v) == IF v.t = "int" THEN v.i ELSE StrToInt(v.s)

\* The fields of a body that break the rules the code applies.
Offending(data) ==
    {f \in FieldSet :
        \/ data[f].t = "absent"
        \/ f \in IntFields /\ ~IntLike(data[f])
        \/ f \in PositiveFields /\ IntLike(data[f]) /\ IntOf(data[f]) <= 0
        \/ f \in StrFields /\ (data[f].t # "str" \/ data[f].s = <<>>)}

\* The fields of a body that break the rules as the specification words them:
\* id not an integer or absent; height, mass or birth_year absent or not a
\* strictly positive integer; a string field absent or empty.
OffendingAsWorded(data) ==
    {f \in FieldSet :
        \/ data[f].t = "absent"
        \/ f = "id" /\ data[f].t # "int"
        \/ f \in PositiveFields /\ ~(data[f].t = "int" /\ data[f].i > 0)
        \/ f \in StrFields /\ data[f] = StrV(<<>>)}

ErrorFields(errors) == {errors[k].field : k \in 1..Len(errors)}

\* A record of a response equals a body, an integer standing for the string
\* of its digits too.
SameAfterCoercion(record, data) ==
    \A f \in FieldSet :
        \/ record[f] = data[f]
        \/ f \in IntFields /\ IntLike(data[f]) /\ record[f] = IntV(IntOf(data[f]))

\* The summary projection of a row.
Summary(row) ==
    [id |-> IntV(row.id), name |-> StrV(row.name), height |-> IntV(row.height),
     mass |-> IntV(row.mass), birth_year |-> IntV(row.birth_year),
     eye_color |-> StrV(row.eye_color)]

RowIsValid(row) ==
    /\ DOMAIN row = FieldSet
    /\ row.id \in Int
    /\ row.height > 0 /\ row.mass > 0 /\ row.birth_year > 0
    /\ row.name # <<>> /\ row.hair_color # <<>> /\ row.skin_color # <<>>
    /\ row.eye_color # <<>>

-----------------------------------------------------------------------------
(* C1: requests handled one at a time.  A create whose body passes the      *)
(* validation and whose id is not in the table goes through the check, the  *)
(* insert and the refresh and answers 201 with the stored record; the       *)
(* record it returns, and the record a later get of the id returns while    *)
(* the row is there, equal the body after the conversion of the integer     *)
(* fields: a numeric string of the body comes back as the integer.          *)
C1_Step ==
    \A r \in Threads :
        /\ (Idle(r) /\ op'[r] = "create_character"
              /\ Offending(character_data'[r][1]) = {})
           => pc'[r] = "check"
        /\ (pc[r] = "check" /\ pc'[r] # "check"
              /\ ~Stored(characters, IntOf(character_data[r][1].id)))
           => pc'[r] = "commit"
        /\ (pc[r] = "commit" /\ pc'[r] # "commit" /\ op[r] = "create_character")
           => /\ pc'[r] = "refresh"
              /\ Len(characters') = Len(characters) + 1
              /\ SameAfterCoercion(model_dump(characters'[Len(characters')]),
                                   character_data[r][1])
        /\ (pc[r] = "refresh" /\ pc'[r] = "done")
           => /\ resp'[r].status = 201
              /\ Len(resp'[r].body) = 1
              /\ SameAfterCoercion(resp'[r].body[1], character_data[r][1])
              /\ \E k \in 1..Len(characters) :
                    model_dump(characters[k]) = resp'[r].body[1]
        /\ (op[r] = "read_character" /\ pc[r] = "query" /\ pc'[r] = "done"
              /\ created[character_id[r]] # <<>>)
           => /\ resp'[r].status = 200
              /\ Len(resp'[r].body) = 1
              /\ SameAfterCoercion(resp'[r].body[1], created[character_id[r]][1])

C1_CreateThenGetCoerced == [][C1_Step]_vars

\* C1 as claimed: the record a get returns equals the body of the create that
\* stored it, in all eight fields.
C1_GetEqualsPayload ==
    \A r \in Threads :
        (op[r] = "read_character" /\ pc[r] = "done"
            /\ created[character_id[r]] # <<>>)
        => resp[r].status = 200 /\ resp[r].body = created[character_id[r]]

\* A get has returned the record of a row whose create gave the id as a
\* numeric string.
C1_Witness ==
    \E r \in Threads :
        /\ op[r] = "read_character" /\ pc[r] = "done" /\ resp[r].status = 200
        /\ created[character_id[r]] # <<>>
        /\ created[character_id[r]][1].id.t = "str"

(* C2: a create whose body is valid and whose id is in the table when the   *)
(* handler checks for it answers 400 "Character with this ID already        *)
(* exists", ends there, and leaves the table as it was: the same rows with  *)
(* the same values.                                                         *)
C2_Step ==
    \A r \in Threads :
        (pc[r] = "check" /\ pc'[r] # "check"
            /\ Stored(characters, IntOf(character_data[r][1].id)))
        => /\ resp'[r] = Conflict
           /\ resp'[r].status = 400
           /\ resp'[r].error = "Character with this ID already exists"
           /\ pc'[r] = "done"
           /\ characters' = characters

C2_DuplicateIsConflict == [][C2_Step]_vars

\* A create was refused as a duplicate of a row that differs from its body.
C2_Witness ==
    \E r \in Threads :
        /\ op[r] = "create_character" /\ pc[r] = "done" /\ resp[r] = Conflict
        /\ \E k \in 1..Len(characters) :
              /\ characters[k].id = IntOf(character_data[r][1].id)
              /\ characters[k].name # character_data[r][1].name.s

(* C3: a create whose body breaks a rule of the code (a field absent; an    *)
(* integer field that is neither an integer nor a numeric string; height,   *)
(* mass or birth_year not above 0; a string field that is not a string or   *)
(* is empty) answers 400 with one error per offending field, each with a    *)
(* message, naming exactly the offending fields, ends there and leaves the  *)
(* table as it was, whether its id is stored or not.                        *)
C3_Step ==
    \A r \in Threads :
        (Idle(r) /\ op'[r] = "create_character"
            /\ Offending(character_data'[r][1]) # {})
        => /\ resp'[r].status = 400
           /\ ErrorFields(resp'[r].errors) = Offending(character_data'[r][1])
           /\ Len(resp'[r].errors) = Cardinality(Offending(character_data'[r][1]))
           /\ \A k \in 1..Len(resp'[r].errors) : resp'[r].errors[k].message # ""
           /\ pc'[r] = "done"
           /\ characters' = characters

C3_ValidationListsOffending == [][C3_Step]_vars

\* C3 as claimed: the offending fields are the ones the rules as worded name.
C3_ListsOffendingAsWorded ==
    \A r \in Threads :
        (op[r] = "create_character" /\ pc[r] = "done"
            /\ OffendingAsWorded(character_data[r][1]) # {})
        => /\ resp[r].status = 400
           /\ ErrorFields(resp[r].errors) = OffendingAsWorded(character_data[r][1])

\* A create with three offending fields and the id of a stored row was
\* answered with errors.
C3_Witness ==
    \E r \in Threads :
        /\ op[r] = "create_character" /\ pc[r] = "done"
        /\ Len(resp[r].errors) >= 3
        /\ IntLike(character_data[r][1].id)
        /\ Stored(characters, IntOf(character_data[r][1].id))

(* C4: the commit of a delete removes the row with the id, and no other:    *)
(* the rows with another id stay, with their values and in their order; it  *)
(* answers 200 with the id.  A get of an id with no row answers "Character  *)
(* not found", and a row with an id that had none comes only from the       *)
(* insert of a create with that id.                                         *)
C4_Step ==
    /\ \A r \in Threads :
          (op[r] = "delete_character" /\ pc[r] = "commit" /\ pc'[r] = "done")
          => /\ ~Stored(characters', character_id[r])
             /\ characters' = SelectSeq(characters, LAMBDA c : c.id # character_id[r])
             /\ resp'[r].status = 200
             /\ resp'[r].info = character_id[r]
    /\ \A r \in Threads :
          (op[r] = "read_character" /\ pc[r] = "query" /\ pc'[r] = "done"
              /\ ~Stored(characters, character_id[r]))
          => resp'[r] = NotFound
    /\ \A id \in Ids :
          (~Stored(characters, id) /\ Stored(characters', id))
          => \E r \in Threads :
                /\ op[r] = "create_character" /\ pc[r] = "commit"
                /\ pc'[r] = "refresh"
                /\ IntOf(character_data[r][1].id) = id

C4_DeleteRemoves == [][C4_Step]_vars

\* A delete was confirmed and the row with the other id is still stored.
C4_Witness ==
    \E r \in Threads :
        /\ op[r] = "delete_character" /\ pc[r] = "done" /\ resp[r].status = 200
        /\ resp[r].info = character_id[r]
        /\ Len(characters) > 0
        /\ ~Stored(characters, character_id[r])

(* C5: a delete whose query finds no row with the id answers 400 "Character *)
(* not found", ends there, and leaves the table as it was.                  *)
C5_Step ==
    \A r \in Threads :
        (op[r] = "delete_character" /\ pc[r] = "query" /\ pc'[r] # "query"
            /\ ~Stored(characters, character_id[r]))
        => /\ resp'[r].error = "Character not found"
           /\ resp'[r].status = 400
           /\ pc'[r] = "done"
           /\ characters' = characters

C5_DeleteMissing == [][C5_Step]_vars

\* A delete of an id with no row was answered not found while another row
\* is stored.
C5_Witness ==
    \E r \in Threads :
        /\ op[r] = "delete_character" /\ pc[r] = "done" /\ resp[r] = NotFound
        /\ Len(characters) > 0
        /\ ~Stored(characters, character_id[r])

(* C6: requests handled one at a time.  The list holds one summary          *)
(* projection per stored row and nothing else, in some order; it is empty,  *)
(* with status 200, when the table is empty.                                *)
C6_ListIsSummaries ==
    \A r \in Threads :
        (op[r] = "read_characters" /\ pc[r] = "done")
        => /\ resp[r].status = 200
           /\ Len(resp[r].list) = Len(characters)
           /\ \E p \in [1..Len(characters) -> 1..Len(characters)] :
                 /\ \A i, j \in 1..Len(characters) : p[i] = p[j] => i = j
                 /\ \A k \in 1..Len(characters) :
                       resp[r].list[k] = Summary(characters[p[k]])

\* C6 as claimed: the list is in the order the rows were created.
C6_ListInCreationOrder ==
    \A r \in Threads :
        (op[r] = "read_characters" /\ pc[r] = "done")
        => resp[r].list = [k \in 1..Len(characters) |-> Summary(characters[k])]

\* A list of two rows was returned.
C6_Witness ==
    \E r \in Threads :
        /\ op[r] = "read_characters" /\ pc[r] = "done"
        /\ Len(resp[r].list) = 2 /\ Len(characters) = 2

(* C7 as claimed: of the creates that race on a fresh id, the ones that     *)
(* lose are answered "Character with this ID already exists": the           *)
(* IntegrityError of the insert does not leave the handler.                 *)
C7_LoserSeesConflict ==
    \A r \in Threads :
        (op[r] = "create_character" /\ pc[r] = "done")
        => resp[r] # Unhandled("IntegrityError")

(* C8 as claimed: a request's session is open at every query and commit of  *)
(* the request, and closed once the request has returned its response.      *)
C8_SessionScoped ==
    \A r \in Threads :
        /\ pc[r] \in {"query", "check", "commit", "refresh"} => db[r] = "open"
        /\ pc[r] = "done" => db[r] = "closed"

(* C9: in every state, no two rows of the table have the same id, and every *)
(* row has all eight fields, height, mass and birth_year above 0, and name, *)
(* hair_color, skin_color and eye_color non-empty.                          *)
C9_TableInvariant ==
    /\ \A i, j \in 1..Len(characters) : characters[i].id = characters[j].id => i = j
    /\ \A k \in 1..Len(characters) : RowIsValid(characters[k])

\* Two rows are stored while a create is about to insert a row with the id
\* of one of them.
C9_Witness ==
    /\ Len(characters) = 2
    /\ \E r \in Threads :
          /\ op[r] = "create_character" /\ pc[r] = "commit"
          /\ Stored(characters, character_schema[r][1].id)

(* C10 as claimed: a delete that confirms the deletion removed a row: of    *)
(* two deletes that race on a row, one confirms.                            *)
C10_Step ==
    \A r \in Threads :
        (op[r] = "delete_character" /\ pc[r] = "commit" /\ pc'[r] = "done"
            /\ resp'[r].status = 200)
        => Len(characters') < Len(characters)

C10_DeletedOnce == [][C10_Step]_vars

====
